---- MODULE Spec2Model ----
(***************************************************************************)
(* SubX daily climatology (createclim_ts_template.py).                     *)
(*                                                                         *)
(* The script is a straight-line batch computation.  The model follows it  *)
(* statement group by statement group:                                     *)
(*   open member files -> concat/squeeze -> sub-sample time -> ensemble    *)
(*   mean -> day-of-year mean -> pad to 366 days with NaN -> two periodic  *)
(*   rolling-mean passes -> extract the original days -> save.             *)
(*                                                                         *)
(* Values are exact rationals <<num, den>> (den > 0, lowest terms); NaN is *)
(* <<0, 0>>.  Time stamps are days since 1970-01-01 (datetime64[D]).       *)
(***************************************************************************)
EXTENDS Integers, Sequences, FiniteSets

\* ---------------------------------------------------------------- bounds
\* Largest number of ensemble members (nens).
MaxEns == 2
\* Largest base value stored in an input file.
MaxVal == 2
\* Number of lead times (length of the auxiliary dimension L).
NLead == 2

\* ----------------------------------------------------- program constants
\* np.empty((366, ...)), np.linspace(1, 366, num=366)
NDays == 366
\* da_day_clim_smooth[-15:], [:15], isel(dayofyear=slice(15, -15))
HalfWin == 15
\* rolling(dayofyear=31, center=True, min_periods=1)
Window == 31
MinPeriods == 1
\* range(2)
NPasses == 2

\* ------------------------------------------------------------ arithmetic
NaN == <<0, 0>>
IsNaN(x) == x[2] = 0
IsNum(x) == x[2] # 0

Abs(n) == IF n < 0 THEN -n ELSE n

RECURSIVE Gcd(_, _)
Gcd(a, b) == IF b = 0 THEN a ELSE Gcd(b, a % b)

Lcm(a, b) == (a \div Gcd(a, b)) * b

\* The rational n/d in lowest terms (d > 0).
Rat(n, d) ==
    LET g == Gcd(Abs(n), d)
    IN  <<n \div g, d \div g>>

Whole(n) == <<n, 1>>

\* ----------------------------------------------------------------- dates
\* A calendar date is <<year, month, day>>; a time stamp is a day count
\* since 1970-01-01.
IsLeap(y) == (y % 4 = 0) /\ ((y % 100 # 0) \/ (y % 400 = 0))

\* Date string 'YYYY-MM-DD' -> time stamp (days from civil).
ToTimestamp(date) ==
    LET y   == IF date[2] <= 2 THEN date[1] - 1 ELSE date[1]
        era == y \div 400
        yoe == y - era * 400
        mp  == IF date[2] > 2 THEN date[2] - 3 ELSE date[2] + 9
        doy == (153 * mp + 2) \div 5 + date[3] - 1
        doe == yoe * 365 + yoe \div 4 - yoe \div 100 + doy
    IN  era * 146097 + doe - 719468

\* Time stamp -> 'YYYY-MM-DD' (civil from days).
Strftime(ts) ==
    LET z   == ts + 719468
        era == z \div 146097
        doe == z - era * 146097
        yoe == (doe - doe \div 1460 + doe \div 36524 - doe \div 146096) \div 365
        doy == doe - (365 * yoe + yoe \div 4 - yoe \div 100)
        mp  == (5 * doy + 2) \div 153
        d   == doy - (153 * mp + 2) \div 5 + 1
        m   == IF mp < 10 THEN mp + 3 ELSE mp - 9
        y   == yoe + era * 400 + (IF m <= 2 THEN 1 ELSE 0)
    IN  <<y, m, d>>

\* Days before each month in a non-leap year.
MonthOffset == <<0, 31, 59, 90, 120, 151, 181, 212, 243, 273, 304, 334>>

\* Mutant of DayOfYear: the leap-year shift after February is left out.
DayOfYearNoLeap(ts) ==
    LET date == Strftime(ts)
    IN  MonthOffset[date[2]] + date[3]

\* The S.dayofyear accessor: 1-based ordinal of the date within its year.
DayOfYear(ts) ==
    LET date == Strftime(ts)
    IN  MonthOffset[date[2]] + date[3]
        + (IF IsLeap(date[1]) /\ date[2] > 2 THEN 1 ELSE 0)


\* ---------------------------------------------------------------- arrays
\* A 2-D DataArray with dims (S, L) is [S |-> time stamps, v |-> rows], each
\* row a sequence of NLead values.  A day-of-year array has the field
\* dayofyear in place of S.
Leads == 1 .. NLead

\* The sequence f as a tuple of its elements.
Array(f) == f \o <<>>

NaNRow == Array([l \in Leads |-> NaN])
Col(v, l) == Array([k \in 1 .. Len(v) |-> v[k][l]])

RECURSIVE LcmDen(_, _, _)
\* Least common denominator of the numeric entries xs[lo..hi].
LcmDen(xs, lo, hi) ==
    IF lo > hi THEN 1
    ELSE IF lo = hi THEN (IF IsNum(xs[lo]) THEN xs[lo][2] ELSE 1)
    ELSE LET mid == (lo + hi) \div 2
         IN  Lcm(LcmDen(xs, lo, mid), LcmDen(xs, mid + 1, hi))

\* Numerator of x over the denominator L (0 for NaN, which is skipped).
Scaled(x, L) == IF IsNum(x) THEN x[1] * (L \div x[2]) ELSE 0

RECURSIVE SumScaled(_, _, _, _)
SumScaled(xs, lo, hi, L) ==
    IF lo > hi THEN 0
    ELSE IF lo = hi THEN Scaled(xs[lo], L)
    ELSE LET mid == (lo + hi) \div 2
         IN  SumScaled(xs, lo, mid, L) + SumScaled(xs, mid + 1, hi, L)

RECURSIVE CountNum(_, _, _)
CountNum(xs, lo, hi) ==
    IF lo > hi THEN 0
    ELSE IF lo = hi THEN (IF IsNum(xs[lo]) THEN 1 ELSE 0)
    ELSE LET mid == (lo + hi) \div 2
         IN  CountNum(xs, lo, mid) + CountNum(xs, mid + 1, hi)

\* Mutant of NanMean: a missing value counts as a zero.
NanMeanZeroFill(xs) ==
    LET L == LcmDen(xs, 1, Len(xs))
    IN  Rat(SumScaled(xs, 1, Len(xs), L), L * Len(xs))

\* Mutant of NanMean: the sum is not divided by the count.
NanSum(xs) ==
    LET L == LcmDen(xs, 1, Len(xs))
        c == CountNum(xs, 1, Len(xs))
    IN  IF c = 0 THEN NaN ELSE Rat(SumScaled(xs, 1, Len(xs), L), L)

\* mean(skipna=True) of a sequence of values: NaN when nothing is numeric.
NanMean(xs) ==
    LET L == LcmDen(xs, 1, Len(xs))
        c == CountNum(xs, 1, Len(xs))
    IN  IF c = 0 THEN NaN ELSE Rat(SumScaled(xs, 1, Len(xs), L), L * c)

RECURSIVE SortedSeq(_, _, _)
\* The members of a set of integers within lo..hi, in increasing order.
SortedSeq(set, lo, hi) ==
    IF lo > hi THEN <<>>
    ELSE IF lo = hi THEN (IF lo \in set THEN <<lo>> ELSE <<>>)
    ELSE LET mid == (lo + hi) \div 2
         IN  SortedSeq(set, lo, mid) \o SortedSeq(set, mid + 1, hi)

Labels(idx) == {idx[k] : k \in 1 .. Len(idx)}

\* Sorted union of sorted, non-empty index sequences (outer join of the
\* indexes).
UnionAxis(idxs) ==
    LET all == UNION {Labels(idxs[m]) : m \in 1 .. Len(idxs)}
        lo == CHOOSE x \in {idxs[m][1] : m \in 1 .. Len(idxs)} :
                \A m \in 1 .. Len(idxs) : x <= idxs[m][1]
        hi == CHOOSE x \in {idxs[m][Len(idxs[m])] : m \in 1 .. Len(idxs)} :
                \A m \in 1 .. Len(idxs) : x >= idxs[m][Len(idxs[m])]
    IN  SortedSeq(all, lo, hi)

RECURSIVE Pos(_, _, _, _)
\* Position of label t in the sorted index idx[lo..hi], 0 when absent.
Pos(idx, t, lo, hi) ==
    IF lo > hi THEN 0
    ELSE LET mid == (lo + hi) \div 2
         IN  IF idx[mid] = t THEN mid
             ELSE IF idx[mid] < t THEN Pos(idx, t, mid + 1, hi)
             ELSE Pos(idx, t, lo, mid - 1)

\* Rows of the array (idx, v) on the index axis: the row where the label is
\* present, an all-NaN row where it is not.
Reindex(axis, idx, v) ==
    Array([k \in 1 .. Len(axis) |->
             LET p == Pos(idx, axis[k], 1, Len(idx))
             IN  IF p = 0 THEN NaNRow ELSE v[p]])

\* ----------------------------------------------------------------- input
\* The member files under ddir.  Each member's file set holds one calendar
\* year of starts: every day ("full"), one start a week ("weekly") or the
\* first and last day only ("ends").  The stored value is the member's base
\* value ("const"), the base plus a small day- and lead-dependent offset
\* ("ramp"), or the base with the last start stored as missing ("gap").
Years == {2000, 2001}
Shapes == {<<"full", "const">>, <<"full", "ramp">>, <<"full", "gap">>,
           <<"weekly", "ramp">>, <<"ends", "const">>}
WindowDates == {<<2000, 12, 31>>, <<2001, 12, 31>>}

Jan1(y) == ToTimestamp(<<y, 1, 1>>)
Dec31(y) == ToTimestamp(<<y, 12, 31>>)

FileTimes(kind, y) ==
    IF kind = "full"
    THEN Array([k \in 1 .. (Dec31(y) - Jan1(y) + 1) |-> Jan1(y) + k - 1])
    ELSE IF kind = "weekly"
         THEN LET first == Jan1(y) + ((7 - (Jan1(y) % 7)) % 7)
              IN  Array([k \in 1 .. ((Dec31(y) - first) \div 7 + 1) |->
                           first + 7 * (k - 1)])
    ELSE <<Jan1(y), Dec31(y)>>

FileValue(pat, base, t, l, last) ==
    IF pat = "ramp" THEN Whole(base + ((t + l) % 3))
    ELSE IF pat = "gap" /\ t = last THEN NaN
    ELSE Whole(base)

\* open_mfdataset(ddir+'*.'+ens+...): the series of member e.
OpenMfDataset(f) ==
    LET S == FileTimes(f.kind, f.year)
    IN  [S |-> S,
         v |-> Array([k \in 1 .. Len(S) |->
                  Array([l \in Leads |->
                           FileValue(f.pat, f.base, S[k], l, S[Len(S)])])])]

\* ------------------------------------------------------------ operations
\* xr.concat(_l, dim='M'): members aligned on the union of their S axes.
Concat(list) ==
    LET axis == UnionAxis([m \in 1 .. Len(list) |-> list[m].S])
    IN  [S |-> axis,
         v |-> Array([m \in 1 .. Len(list) |-> Reindex(axis, list[m].S, list[m].v)])]

\* Mutant of SelSlice: the end of the slice is left out.
SelSliceOpenEnd(a, start, stop) ==
    LET lo == Cardinality({k \in 1 .. Len(a.S) : a.S[k] < ToTimestamp(start)}) + 1
        hi == Cardinality({k \in 1 .. Len(a.S) : a.S[k] < ToTimestamp(stop)})
    IN  [S |-> SubSeq(a.S, lo, hi),
         v |-> Array([m \in 1 .. Len(a.v) |-> SubSeq(a.v[m], lo, hi)])]

\* da.sel(S=slice(starttime, endtime)): label slice on the sorted S index,
\* both ends included.
SelSlice(a, start, stop) ==
    LET lo == Cardinality({k \in 1 .. Len(a.S) : a.S[k] < ToTimestamp(start)}) + 1
        hi == Cardinality({k \in 1 .. Len(a.S) : a.S[k] <= ToTimestamp(stop)})
    IN  [S |-> SubSeq(a.S, lo, hi),
         v |-> Array([m \in 1 .. Len(a.v) |-> SubSeq(a.v[m], lo, hi)])]

\* da.mean(dim='M'): per cell, the mean of the members that are not NaN.
MeanM(a) ==
    [S |-> a.S,
     v |-> Array([k \in 1 .. Len(a.S) |->
              Array([l \in Leads |->
                       NanMean(Array([m \in 1 .. Len(a.v) |-> a.v[m][k][l]]))])])]

\* da.copy() of the member-squeezed array.
CopyM(a) == [S |-> a.S, v |-> a.v[1]]

\* da_ensmean.groupby('S.dayofyear').mean('S'), one lead at a time: sums and
\* counts of the numeric samples per day of year, then sum / count.  The
\* loop over the samples runs in stretches of 32.
GroupMeanCol(doys, col) ==
    LET n == Len(col)
        L == LcmDen(col, 1, n)
        Zero == Array([d \in 1 .. NDays |-> 0])
        RECURSIVE Acc(_, _, _)
        Acc(k, hi, sc) ==
            IF sc[2][1] >= 0 /\ k > hi THEN sc
            ELSE IF IsNum(col[k])
                 THEN Acc(k + 1, hi,
                          <<[sc[1] EXCEPT ![doys[k]] = @ + Scaled(col[k], L)],
                            [sc[2] EXCEPT ![doys[k]] = @ + 1]>>)
            ELSE Acc(k + 1, hi, sc)
        RECURSIVE AccBlocks(_, _)
        AccBlocks(k, sc) ==
            IF sc[2][1] >= 0 /\ k > n THEN sc
            ELSE AccBlocks(k + 32, Acc(k, IF k + 31 > n THEN n ELSE k + 31, sc))
        r == AccBlocks(1, <<Zero, Zero>>)
    IN  Array([d \in 1 .. NDays |->
                 IF r[2][d] = 0 THEN NaN ELSE Rat(r[1][d], L * r[2][d])])

\* The groups are the days of year that occur among the time stamps; a group
\* whose samples are all NaN has the mean NaN.
GroupByDayOfYearMean(a) ==
    LET doys == Array([k \in 1 .. Len(a.S) |-> DayOfYear(a.S[k])])
        days == SortedSeq(Labels(doys), 1, NDays)
        cols == Array([l \in Leads |-> GroupMeanCol(doys, Col(a.v, l))])
    IN  [dayofyear |-> days,
         v |-> Array([j \in 1 .. Len(days) |->
                        Array([l \in Leads |-> cols[l][days[j]]])])]

\* np.linspace(1, 366, num=366, dtype=np.int64)
AllDays == Array([d \in 1 .. NDays |-> d])

\* da_day_clim.combine_first(_da) with _da all NaN on the days 1..366: the
\* outer join of the two day-of-year indexes, da_day_clim's value where it
\* has one.
CombineFirst(clim) ==
    LET axis == SortedSeq(Labels(clim.dayofyear) \cup Labels(AllDays), 1, NDays)
    IN  [dayofyear |-> axis, v |-> Reindex(axis, clim.dayofyear, clim.v)]

\* Python slices x[-15:], x[:15] and x[15:-15] of a sequence.
LastN(x, n) == SubSeq(x, IF Len(x) > n THEN Len(x) - n + 1 ELSE 1, Len(x))
FirstN(x, n) == SubSeq(x, 1, IF Len(x) > n THEN n ELSE Len(x))
DropEnds(x, n) == SubSeq(x, n + 1, Len(x) - n)

\* Mutant of ExtendPeriodic: the array is extended with zeros.
ExtendZeros(a) ==
    LET zeros == Array([k \in 1 .. HalfWin |-> Array([l \in Leads |-> Whole(0)])])
    IN  [dayofyear |-> LastN(a.dayofyear, HalfWin) \o a.dayofyear
                          \o FirstN(a.dayofyear, HalfWin),
         v |-> zeros \o a.v \o zeros]

\* Mutant of ExtendPeriodic: the two ends are attached the wrong way round.
ExtendMirrored(a) ==
    [dayofyear |-> FirstN(a.dayofyear, HalfWin) \o a.dayofyear \o LastN(a.dayofyear, HalfWin),
     v |-> FirstN(a.v, HalfWin) \o a.v \o LastN(a.v, HalfWin)]

\* xr.concat([a[-15:], a, a[:15]], 'dayofyear')
ExtendPeriodic(a) ==
    [dayofyear |-> LastN(a.dayofyear, HalfWin) \o a.dayofyear \o FirstN(a.dayofyear, HalfWin),
     v |-> LastN(a.v, HalfWin) \o a.v \o FirstN(a.v, HalfWin)]

RECURSIVE Cumsum(_, _, _)
\* Running sums <<xs[lo], xs[lo]+xs[lo+1], ...>> of xs[lo..hi].
Cumsum(xs, lo, hi) ==
    IF lo > hi THEN <<>>
    ELSE IF lo = hi THEN <<xs[lo]>>
    ELSE LET mid == (lo + hi) \div 2
             left == Cumsum(xs, lo, mid)
             right == Cumsum(xs, mid + 1, hi)
             last == left[Len(left)]
         IN  left \o [k \in 1 .. Len(right) |-> last + right[k]]

\* Mutant of RollingMeanCol: a missing entry counts as a zero.
RollingMeanColZero(col) ==
    LET n == Len(col)
        h == Window \div 2
        L == LcmDen(col, 1, n)
        ps == <<0>> \o Cumsum(Array([k \in 1 .. n |-> Scaled(col[k], L)]), 1, n)
    IN  Array([p \in 1 .. n |->
           LET lo == IF p - (Window - 1 - h) < 1 THEN 1 ELSE p - (Window - 1 - h)
               hi == IF p + h > n THEN n ELSE p + h
           IN  Rat(ps[hi + 1] - ps[lo], L * (hi - lo + 1))])

\* Mutant of RollingMeanCol: two numeric entries are asked of a window.
RollingMeanColMin2(col) ==
    LET n == Len(col)
        h == Window \div 2
        L == LcmDen(col, 1, n)
        ps == <<0>> \o Cumsum(Array([k \in 1 .. n |-> Scaled(col[k], L)]), 1, n)
        pc_ == <<0>> \o Cumsum(Array([k \in 1 .. n |-> IF IsNum(col[k]) THEN 1 ELSE 0]),
                               1, n)
    IN  Array([p \in 1 .. n |->
           LET lo == IF p - (Window - 1 - h) < 1 THEN 1 ELSE p - (Window - 1 - h)
               hi == IF p + h > n THEN n ELSE p + h
               c == pc_[hi + 1] - pc_[lo]
           IN  IF c < MinPeriods + 1 THEN NaN ELSE Rat(ps[hi + 1] - ps[lo], L * c)])

\* rolling(dayofyear=31, center=True, min_periods=1).mean() of one lead: at
\* position p the window is p-15 .. p+15 cut to the array, the mean is taken
\* over the numeric entries, and is NaN when fewer than min_periods are.
RollingMeanCol(col) ==
    LET n == Len(col)
        h == Window \div 2
        L == LcmDen(col, 1, n)
        ps == <<0>> \o Cumsum(Array([k \in 1 .. n |-> Scaled(col[k], L)]), 1, n)
        pc_ == <<0>> \o Cumsum(Array([k \in 1 .. n |-> IF IsNum(col[k]) THEN 1 ELSE 0]),
                               1, n)
    IN  Array([p \in 1 .. n |->
           LET lo == IF p - (Window - 1 - h) < 1 THEN 1 ELSE p - (Window - 1 - h)
               hi == IF p + h > n THEN n ELSE p + h
               c == pc_[hi + 1] - pc_[lo]
           IN  IF c < MinPeriods THEN NaN ELSE Rat(ps[hi + 1] - ps[lo], L * c)])

RollingMean(a) ==
    LET cols == Array([l \in Leads |-> RollingMeanCol(Col(a.v, l))])
    IN  [dayofyear |-> a.dayofyear,
         v |-> Array([p \in 1 .. Len(a.v) |-> Array([l \in Leads |-> cols[l][p]])])]

\* isel(dayofyear=slice(15, -15))
IselTrim(a) ==
    [dayofyear |-> DropEnds(a.dayofyear, HalfWin), v |-> DropEnds(a.v, HalfWin)]

\* One iteration of the loop body: extend, rolling mean, drop the boundaries.
SmoothPass(a) == IselTrim(RollingMean(ExtendPeriodic(a)))

\* Mutant of SelDays: the selection is left out.
SelDaysAll(a, days) == a

\* da_day_clim_smooth.sel(dayofyear=da_day_clim.dayofyear): the rows whose
\* labels are the days of da_day_clim (all of them are labels of the padded
\* index).
SelDays(a, days) ==
    [dayofyear |-> days, v |-> Reindex(days, a.dayofyear, a.v)]

\* ----------------------------------------------------------------- state
VARIABLES
    files,              \* the member files under ddir, one descriptor a member
    subsampleS,         \* the values generate_ts_clim.ksh fills in
    startS,
    endS,
    nens,               \* len(_rd.M.values)
    subsampletime,
    starttime,
    endtime,
    l_,                 \* _l
    da,
    da_ensmean,
    da_day_clim,
    da_day_clim_wnan,
    da_day_clim_smooth,
    i,                  \* passes of the smoothing loop done
    climfile,           \* what was written to outclimDir+climfname
    sclimfile,          \* what was written to outclimDir+sclimfname
    err,
    pc

vars == <<files, subsampleS, startS, endS, nens, subsampletime, starttime, endtime,
          l_, da, da_ensmean, da_day_clim, da_day_clim_wnan, da_day_clim_smooth,
          i, climfile, sclimfile, err, pc>>

inputs == <<files, subsampleS, startS, endS, nens>>

NoSeries == [S |-> <<>>, v |-> <<>>]
NoDays == [dayofyear |-> <<>>, v |-> <<>>]
NoFile == [written |-> FALSE, starttime |-> <<0, 0, 0>>, endtime |-> <<0, 0, 0>>,
           data |-> NoDays]

\* The first member's starts cover the year y1, the other members' the year
\* y2; the base values are all b, or b, b+1, ... by member.
FileSets ==
    { [e \in 1 .. n |->
         [kind |-> sh[1], pat |-> sh[2], year |-> IF e = 1 THEN y1 ELSE y2,
          base |-> b + spread * (e - 1)]] :
      n \in 1 .. MaxEns, sh \in Shapes, y1 \in Years, y2 \in Years,
      b \in 1 .. MaxVal, spread \in {0, 1} }

\* <<subsampleS, startS, endS>> as filled in by generate_ts_clim.ksh.
Requests ==
    {<<1, s, e>> : s \in WindowDates, e \in WindowDates}
        \cup {<<0, w[1], w[2]>> : w \in {x \in WindowDates \X WindowDates : x[1] # x[2]}}

Init ==
    /\ files \in FileSets
    /\ \E r \in Requests : subsampleS = r[1] /\ startS = r[2] /\ endS = r[3]
    /\ nens = Len(files)
    /\ subsampletime = subsampleS
    /\ starttime = startS
    /\ endtime = endS
    /\ l_ = <<>>
    /\ da = [S |-> <<>>, v |-> <<>>]
    /\ da_ensmean = NoSeries
    /\ da_day_clim = NoDays
    /\ da_day_clim_wnan = NoDays
    /\ da_day_clim_smooth = NoDays
    /\ i = 0
    /\ climfile = NoFile
    /\ sclimfile = NoFile
    /\ err = "none"
    /\ pc = "open"

\* --------------------------------------------------------------- actions
\* for e in range(1, nens+1): _l.append(xr.open_mfdataset(...))
OpenMember ==
    /\ pc = "open"
    /\ l_' = Append(l_, OpenMfDataset(files[Len(l_) + 1]))
    /\ pc' = IF Len(l_) + 1 = nens THEN "concat" ELSE "open"
    /\ UNCHANGED <<inputs, subsampletime, starttime, endtime, da, da_ensmean,
                   da_day_clim, da_day_clim_wnan, da_day_clim_smooth, i,
                   climfile, sclimfile, err>>

\* ds = xr.concat(_l, dim='M'); ds = ds.squeeze(); da = ds[va].  With one
\* member squeeze drops M; the S and L dimensions are longer than 1.
ConcatSqueeze ==
    /\ pc = "concat"
    /\ da' = Concat(l_)
    /\ pc' = "subsample"
    /\ UNCHANGED <<inputs, subsampletime, starttime, endtime, l_, da_ensmean,
                   da_day_clim, da_day_clim_wnan, da_day_clim_smooth, i,
                   climfile, sclimfile, err>>

\* if 1 == subsampletime: da = da.sel(S=slice(starttime, endtime))
\* else: starttime, endtime = first and last S as '%Y-%m-%d'
SubSampleTime ==
    /\ pc = "subsample"
    /\ IF 1 = subsampletime
       THEN /\ da' = SelSlice(da, starttime, endtime)
            /\ UNCHANGED <<starttime, endtime>>
       ELSE /\ starttime' = Strftime(da.S[1])
            /\ endtime' = Strftime(da.S[Len(da.S)])
            /\ UNCHANGED da
    /\ pc' = "ensmean"
    /\ UNCHANGED <<inputs, subsampletime, l_, da_ensmean, da_day_clim,
                   da_day_clim_wnan, da_day_clim_smooth, i, climfile, sclimfile, err>>

\* if nens > 1: da_ensmean = da.mean(dim='M') else: da_ensmean = da.copy()
EnsembleMean ==
    /\ pc = "ensmean"
    /\ da_ensmean' = IF nens > 1 THEN MeanM(da) ELSE CopyM(da)
    /\ pc' = "dayclim"
    /\ UNCHANGED <<inputs, subsampletime, starttime, endtime, l_, da, da_day_clim,
                   da_day_clim_wnan, da_day_clim_smooth, i, climfile, sclimfile, err>>

\* da_day_clim = da_ensmean.groupby('S.dayofyear').mean('S'), saved to
\* climfname and read back.  groupby raises ValueError on an empty S.
DayClim ==
    /\ pc = "dayclim"
    /\ IF Len(da_ensmean.S) = 0
       THEN /\ err' = "ValueError"
            /\ pc' = "failed"
            /\ UNCHANGED <<da_day_clim, climfile>>
       ELSE /\ climfile' = [written |-> TRUE, starttime |-> starttime,
                            endtime |-> endtime,
                            data |-> GroupByDayOfYearMean(da_ensmean)]
            /\ da_day_clim' = climfile'.data
            /\ pc' = "pad"
            /\ UNCHANGED err
    /\ UNCHANGED <<inputs, subsampletime, starttime, endtime, l_, da, da_ensmean,
                   da_day_clim_wnan, da_day_clim_smooth, i, sclimfile>>

\* da_day_clim_wnan = da_day_clim.combine_first(_da);
\* da_day_clim_smooth = da_day_clim_wnan.copy()
PadWithNaN ==
    /\ pc = "pad"
    /\ da_day_clim_wnan' = CombineFirst(da_day_clim)
    /\ da_day_clim_smooth' = da_day_clim_wnan'
    /\ i' = 0
    /\ pc' = "smooth"
    /\ UNCHANGED <<inputs, subsampletime, starttime, endtime, l_, da, da_ensmean,
                   da_day_clim, climfile, sclimfile, err>>

\* for i in range(2): one periodic rolling-mean pass over the previous result
Smooth ==
    /\ pc = "smooth"
    /\ da_day_clim_smooth' = SmoothPass(da_day_clim_smooth)
    /\ i' = i + 1
    /\ pc' = IF i + 1 = NPasses THEN "extract" ELSE "smooth"
    /\ UNCHANGED <<inputs, subsampletime, starttime, endtime, l_, da, da_ensmean,
                   da_day_clim, da_day_clim_wnan, climfile, sclimfile, err>>

\* da_day_clim_smooth = da_day_clim_smooth.sel(dayofyear=da_day_clim.dayofyear)
ExtractOriginalDays ==
    /\ pc = "extract"
    /\ da_day_clim_smooth' = SelDays(da_day_clim_smooth, da_day_clim.dayofyear)
    /\ pc' = "save"
    /\ UNCHANGED <<inputs, subsampletime, starttime, endtime, l_, da, da_ensmean,
                   da_day_clim, da_day_clim_wnan, i, climfile, sclimfile, err>>

\* da_day_clim_smooth.to_netcdf(outclimDir+sclimfname)
SaveSmooth ==
    /\ pc = "save"
    /\ sclimfile' = [written |-> TRUE, starttime |-> starttime, endtime |-> endtime,
                     data |-> da_day_clim_smooth]
    /\ pc' = "done"
    /\ UNCHANGED <<inputs, subsampletime, starttime, endtime, l_, da, da_ensmean,
                   da_day_clim, da_day_clim_wnan, da_day_clim_smooth, i, climfile, err>>

Next ==
    \/ OpenMember
    \/ ConcatSqueeze
    \/ SubSampleTime
    \/ EnsembleMean
    \/ DayClim
    \/ PadWithNaN
    \/ Smooth
    \/ ExtractOriginalDays
    \/ SaveSmooth

Spec == Init /\ [][Next]_vars

\* The runs of Spec on ensembles of base value 1 that either take the whole
\* series or the window from the first to the last window date.
InitRef ==
    /\ Init
    /\ files[1].base = 1
    /\ startS # endS
    /\ startS = <<2000, 12, 31>>

SpecRef == InitRef /\ [][Next]_vars

\* ---------------------------------------------------------------- claims
\* Day of year of a time stamp, counted from January 1 of its year.
OrdinalInYear(t) == t - ToTimestamp(<<Strftime(t)[1], 1, 1>>) + 1

\* The time stamps found in the member files.
AllStamps == UNION {Labels(l_[m].S) : m \in 1 .. Len(l_)}
InWindow(t) == ToTimestamp(startS) <= t /\ t <= ToTimestamp(endS)

Padded == da_day_clim_wnan
AfterPad == pc = "smooth" /\ i = 0
EmittedDays == sclimfile.data.dayofyear
HasNumeric ==
    \E k \in 1 .. Len(da_ensmean.v) : \E l \in Leads : IsNum(da_ensmean.v[k][l])
NumericDays(a, l) == {d \in 1 .. Len(a.v) : IsNum(a.v[d][l])}

\* C1 (as stated): whenever the ensemble mean has a numeric value, the
\* smoothed climatology that is written has exactly the 366 entries 1..366.
C1_Original ==
    (pc = "done" /\ HasNumeric)
        => (Len(EmittedDays) = NDays /\ Labels(EmittedDays) = 1 .. NDays)

\* C1 (amended): the result of the two smoothing passes has the 366 entries
\* 1..366, and the smoothed climatology that is written has exactly the days
\* of the raw day-of-year climatology, in increasing order: the days of year
\* that occur among the time stamps of the ensemble mean.
C1_EmittedDays ==
    /\ pc = "extract" =>
          /\ da_day_clim_smooth.dayofyear = AllDays
          /\ Len(da_day_clim_smooth.v) = NDays
    /\ pc = "done" =>
          /\ EmittedDays = climfile.data.dayofyear
          /\ Labels(EmittedDays) = {OrdinalInYear(t) : t \in Labels(da_ensmean.S)}
          /\ \A j \in 1 .. Len(EmittedDays) - 1 : EmittedDays[j] < EmittedDays[j + 1]
          /\ Len(sclimfile.data.v) = Len(EmittedDays)

C1_Witness == pc = "done" /\ HasNumeric /\ Len(EmittedDays) < NDays

NoLeapDay ==
    \A k \in 1 .. Len(da_ensmean.S) :
       LET date == Strftime(da_ensmean.S[k]) IN ~(date[2] = 2 /\ date[3] = 29)
NoDay366 ==
    \A k \in 1 .. Len(da_ensmean.S) :
       LET date == Strftime(da_ensmean.S[k])
       IN  ~(date[2] = 12 /\ date[3] = 31 /\ IsLeap(date[1]))

\* C2 (as stated): if no time stamp of the ensemble mean is a February 29,
\* day 366 is missing from the day-of-year climatology and the padded
\* climatology has exactly one missing entry, day 366.
C2_Original ==
    (AfterPad /\ NoLeapDay)
        => /\ 366 \notin Labels(da_day_clim.dayofyear)
           /\ \A l \in Leads : NumericDays(Padded, l) = 1 .. 365

\* C2 (amended): if no time stamp of the ensemble mean is the 366th day of
\* a leap year, the day-of-year climatology has no entry for day 366, the
\* padded climatology has the 366 entries 1..366 with day 366 missing, and a
\* day 1..365 is numeric in it exactly when a sample of that day of year is.
C2_Day366Missing ==
    (AfterPad /\ NoDay366)
        => /\ 366 \notin Labels(da_day_clim.dayofyear)
           /\ Padded.dayofyear = AllDays
           /\ Len(Padded.v) = NDays
           /\ \A l \in Leads :
                 NumericDays(Padded, l) =
                    {OrdinalInYear(da_ensmean.S[k]) :
                       k \in {j \in 1 .. Len(da_ensmean.S) : IsNum(da_ensmean.v[j][l])}}

C2_Witness ==
    AfterPad /\ NoDay366 /\ \A l \in Leads : NumericDays(Padded, l) = 1 .. 365

\* Days 1..365 of the padded climatology all hold the same numeric row and
\* day 366 is missing.
ConstRow == Padded.v[1]
ConstantBut366 ==
    /\ Len(Padded.v) = NDays
    /\ \A l \in Leads : IsNum(ConstRow[l])
    /\ \A d \in 1 .. 365 : Padded.v[d] = ConstRow
    /\ Padded.v[366] = NaNRow

\* C3 (as stated): with day 366 missing and days 1..365 all equal to v, the
\* smoothed climatology that is written has an entry for day 366, equal to v.
C3_Original ==
    (pc = "done" /\ ConstantBut366)
        => /\ 366 \in Labels(EmittedDays)
           /\ sclimfile.data.v[Len(EmittedDays)] = ConstRow

\* C3 (amended): with day 366 missing and days 1..365 all equal to v, the
\* result of the two smoothing passes is v at day 366; the smoothed
\* climatology that is written has an entry for day 366 only if the raw
\* day-of-year climatology has one, and that entry is v.
C3_Day366Smoothed ==
    /\ (pc = "extract" /\ ConstantBut366) => da_day_clim_smooth.v[366] = ConstRow
    /\ (pc = "done" /\ ConstantBut366) =>
          /\ 366 \in Labels(EmittedDays) <=> 366 \in Labels(da_day_clim.dayofyear)
          /\ 366 \in Labels(EmittedDays) => sclimfile.data.v[Len(EmittedDays)] = ConstRow

C3_Witness == pc = "done" /\ ConstantBut366 /\ 366 \in Labels(EmittedDays)

ConstantAll ==
    /\ Len(Padded.v) = NDays
    /\ \A l \in Leads : IsNum(ConstRow[l])
    /\ \A d \in 1 .. NDays : Padded.v[d] = ConstRow

\* C4: a padded climatology without missing entries whose days all hold the
\* same value v is smoothed to v at every day 1..366, and written so.
C4_ConstantPreserved ==
    /\ (pc = "extract" /\ ConstantAll) =>
          \A d \in 1 .. NDays : da_day_clim_smooth.v[d] = ConstRow
    /\ (pc = "done" /\ ConstantAll) =>
          /\ Len(sclimfile.data.v) = NDays
          /\ \A d \in 1 .. NDays : sclimfile.data.v[d] = ConstRow

C4_Witness == pc = "extract" /\ ConstantAll

\* C5 (as stated): a sub-sampling window that selects no sample makes the run
\* fail with EmptyWindowError; it never goes on with an empty series.
C5_EmptyWindowFails ==
    (subsampletime = 1 /\ pc \notin {"open", "concat", "subsample"} /\ Len(da.S) = 0)
        => (pc = "failed" /\ err = "EmptyWindowError")

\* The sample of member m at time stamp t and lead l; NaN when the member
\* has no sample at t.
CellOf(m, t, l) ==
    LET p == Pos(l_[m].S, t, 1, Len(l_[m].S))
    IN  IF p = 0 THEN NaN ELSE l_[m].v[p][l]

RECURSIVE SumNums(_, _)
SumNums(vals, m) ==
    IF m = 0 THEN 0
    ELSE SumNums(vals, m - 1) + (IF IsNum(vals[m]) THEN vals[m][1] ELSE 0)

Reduced == pc = "dayclim"

\* C6: the time axis of the ensemble mean is the union of the members' time
\* stamps (those of the window when sub-sampling), and in every cell the
\* ensemble mean times the number of members with a sample there is the sum
\* of their samples; it is missing when no member has one.  With one member
\* the ensemble mean is that member's sample.
C6_EnsembleMean ==
    Reduced =>
        /\ Labels(da_ensmean.S) = {t \in AllStamps : subsampleS # 1 \/ InWindow(t)}
        /\ \A k \in 1 .. Len(da_ensmean.S) : \A l \in Leads :
              LET vals == Array([m \in 1 .. nens |-> CellOf(m, da_ensmean.S[k], l)])
                  present == {m \in 1 .. nens : IsNum(vals[m])}
                  x == da_ensmean.v[k][l]
              IN  IF nens = 1 THEN x = vals[1]
                  ELSE IF present = {} THEN IsNaN(x)
                  ELSE /\ \A m \in present : vals[m][2] = 1
                       /\ x[2] > 0
                       /\ x[1] * Cardinality(present) = x[2] * SumNums(vals, nens)

C6_Witness ==
    /\ Reduced
    /\ nens > 1
    /\ \E k \in 1 .. Len(da_ensmean.S) :
          /\ IsNum(da_ensmean.v[k][1])
          /\ \E m \in 1 .. nens : IsNaN(CellOf(m, da_ensmean.S[k], 1))

Identical == \A e \in 1 .. Len(files) : files[e] = files[1]
Pairs(a) == Array([k \in 1 .. Len(a.S) |-> <<a.S[k], a.v[k]>>])
WantedPair(p) == subsampleS # 1 \/ InWindow(p[1])

\* C7: when all members hold the same series, the ensemble mean is that
\* series (its part in the window when sub-sampling), for every nens >= 1.
C7_IdenticalMembers ==
    (Reduced /\ Identical) => Pairs(da_ensmean) = SelectSeq(Pairs(l_[1]), WantedPair)

C7_Witness == Reduced /\ Identical /\ nens > 1 /\ HasNumeric

DaysInMonth(y, m) ==
    IF m = 2 THEN (IF IsLeap(y) THEN 29 ELSE 28)
    ELSE IF m \in {4, 6, 9, 11} THEN 30 ELSE 31
IsDate(date) ==
    date[2] \in 1 .. 12 /\ date[3] \in 1 .. DaysInMonth(date[1], date[2])

\* C8: when sub-sampling, the dates reported are those supplied and the
\* series is cut to the closed interval between them before the ensemble
\* mean is taken; otherwise the series is the whole union of the members'
\* time stamps and the dates reported are the calendar dates of its first and
\* last time stamp, whatever dates were supplied.
C8_EffectiveDates ==
    pc \notin {"open", "concat", "subsample"} =>
        /\ IF subsampleS = 1
           THEN /\ starttime = startS
                /\ endtime = endS
                /\ Labels(da.S) = {t \in AllStamps : InWindow(t)}
           ELSE /\ Labels(da.S) = AllStamps
                /\ IsDate(starttime) /\ IsDate(endtime)
                /\ ToTimestamp(starttime) \in AllStamps
                /\ ToTimestamp(endtime) \in AllStamps
                /\ \A t \in AllStamps :
                      ToTimestamp(starttime) <= t /\ t <= ToTimestamp(endtime)
        /\ pc # "ensmean" => da_ensmean.S = da.S
        /\ climfile.written =>
              climfile.starttime = starttime /\ climfile.endtime = endtime
        /\ sclimfile.written =>
              sclimfile.starttime = starttime /\ sclimfile.endtime = endtime

C8_Witness ==
    /\ pc = "ensmean"
    /\ subsampleS = 1
    /\ Len(da.S) > 0
    /\ Len(da.S) < Cardinality(AllStamps)

\* The days at circular distance k from a day of D, and the days within
\* distance 15 = 1 + 2 + 4 + 8 of a day of D.
Shift(D, k) == {((d - 1 + k + NDays) % NDays) + 1 : d \in D}
Grow(D, k) == D \cup Shift(D, k) \cup Shift(D, 0 - k)
Near15(D) == Grow(Grow(Grow(Grow(D, 1), 2), 4), 8)

\* C9 (as stated): every entry of the result of the two smoothing passes is
\* numeric (given a numeric value in the ensemble mean).
C9_Original ==
    (pc = "extract" /\ HasNumeric)
        => \A l \in Leads : NumericDays(da_day_clim_smooth, l) = 1 .. NDays

\* C9 (amended): an entry of the result of the two smoothing passes is
\* numeric exactly when the padded climatology has a numeric entry within 30
\* days of it, counted round the year; every entry that is numeric in the raw
\* climatology is numeric in the smoothed climatology that is written.
C9_FilledWithin30 ==
    /\ pc = "extract" =>
          \A l \in Leads :
             NumericDays(da_day_clim_smooth, l) = Near15(Near15(NumericDays(Padded, l)))
    /\ pc = "done" =>
          \A j \in 1 .. Len(da_day_clim.v) : \A l \in Leads :
             IsNum(da_day_clim.v[j][l]) => IsNum(sclimfile.data.v[j][l])

C9_Witness ==
    /\ pc = "extract"
    /\ NumericDays(da_day_clim_smooth, 1) # 1 .. NDays
    /\ NumericDays(da_day_clim_smooth, 1) # NumericDays(Padded, 1)

\* The mean of the numeric entries among the 31 days at circular offsets
\* -15 .. +15 from each day, NaN when there is none.
CircularMeanCol(col) ==
    LET n == Len(col)
        L == LcmDen(col, 1, n)
    IN  Array([d \in 1 .. n |->
           LET win == Array([o \in 1 .. 31 |-> col[((d - 1 + (o - 16) + n) % n) + 1]])
               c == Cardinality({o \in 1 .. 31 : IsNum(win[o])})
           IN  IF c = 0 THEN NaN ELSE Rat(SumScaled(win, 1, 31, L), L * c)])

CircularMean(v) ==
    LET cols == Array([l \in Leads |-> CircularMeanCol(Col(v, l))])
    IN  Array([d \in 1 .. Len(v) |-> Array([l \in Leads |-> cols[l][d]])])

\* C10: each pass of the smoothing loop replaces the 366 entries by their
\* circular 31-day means of the numeric entries (missing when all 31 are);
\* the first pass starts from the padded climatology, the second from the
\* result of the first.
C10_PassIsCircularMean ==
    [][pc = "smooth" =>
         /\ i = 0 => da_day_clim_smooth = Padded
         /\ Len(da_day_clim_smooth.v) = NDays
         /\ da_day_clim_smooth'.dayofyear = AllDays
         /\ da_day_clim_smooth'.v = CircularMean(da_day_clim_smooth.v)
         /\ i' = i + 1]_vars

C10_Witness ==
    /\ pc = "extract"
    /\ i = NPasses
    /\ da_day_clim_smooth.v # Padded.v
    /\ \E l \in Leads : NumericDays(Padded, l) # 1 .. NDays

====
